---- MODULE Spec2Model ----
(***************************************************************************)
(* Model of the scprep test helpers (python/test/tools/utils.py) and of    *)
(* the installer script (python/setup.py).                                 *)
(*                                                                         *)
(* Matrix-like values are records                                          *)
(*   [kind, shape, data, fill, columns, index]                             *)
(* kind    : the concrete Python class name (type(X).__name__)             *)
(* shape   : <<rows, cols>>                                                *)
(* data    : dense kinds: a function over every position;                  *)
(*           scipy sparse kinds: a function over the STORED positions      *)
(*           only (explicitly stored zeros are possible, as in scipy)      *)
(* fill    : SparseDataFrame only: the default fill value                  *)
(* columns, index : label sequences of the pandas kinds, <<>> otherwise    *)
(* Cell values are symbolic floats: "0", "1" and "nan".                    *)
(***************************************************************************)
EXTENDS Integers, Sequences, FiniteSets, TLC

\* ------------------------------------------------------------------ bounds
MaxDim == 2
MaxCells == 2
MaxMinor == 8

\* ------------------------------------------------------- matrix-like values
Values == {"0", "1", "nan"}

SparseKinds == {"csr_matrix", "csc_matrix"}

Positions(shape) == (1..shape[1]) \X (1..shape[2])

Shapes == {s \in (1..MaxDim) \X (1..MaxDim) : s[1] * s[2] <= MaxCells}

DefaultLabels(n) == [i \in 1..n |-> IF i = 1 THEN "g1" ELSE IF i = 2 THEN "g2" ELSE "g3"]

OtherLabels(n) == [i \in 1..n |-> IF i = 1 THEN "h1" ELSE IF i = 2 THEN "h2" ELSE "h3"]

None == [kind |-> "NoneType"]

ndarray(shape, data) ==
    [kind |-> "ndarray", shape |-> shape, data |-> data, fill |-> "0",
     columns |-> <<>>, index |-> <<>>]

Matrices ==
    UNION {
        {[kind |-> k, shape |-> s, data |-> d, fill |-> "0",
          columns |-> <<>>, index |-> <<>>] :
            k \in {"ndarray", "matrix"}, d \in [Positions(s) -> Values]}
        \cup
        {[kind |-> "csr_matrix", shape |-> s, data |-> d, fill |-> "0",
          columns |-> <<>>, index |-> <<>>] :
            d \in UNION {[S -> Values] : S \in SUBSET Positions(s)}}
        \cup
        {[kind |-> "DataFrame", shape |-> s, data |-> d, fill |-> "0",
          columns |-> DefaultLabels(s[2]), index |-> DefaultLabels(s[1])] :
            d \in [Positions(s) -> Values]}
        \cup
        {[kind |-> "SparseDataFrame", shape |-> s, data |-> d, fill |-> f,
          columns |-> DefaultLabels(s[2]), index |-> DefaultLabels(s[1])] :
            d \in [Positions(s) -> Values], f \in {"0", "nan"}}
        : s \in Shapes}

\* sparse.issparse(X)
issparse(X) == X.kind \in SparseKinds

\* isinstance(X, pd.SparseDataFrame)
isSparseDataFrame(X) == X.kind = "SparseDataFrame"

\* isinstance(X, pd.DataFrame); SparseDataFrame is a subclass of DataFrame
isDataFrame(X) == X.kind \in {"DataFrame", "SparseDataFrame"}

\* type(X).__name__
TypeName(X) == X.kind

\* X.toarray(): unstored positions read as zero
toarray(X) ==
    ndarray(X.shape,
            [p \in Positions(X.shape) |->
                IF p \in DOMAIN X.data THEN X.data[p] ELSE "0"])

\* X.to_dense().values / X.values
values(X) == ndarray(X.shape, X.data)

\* the methods to_array calls on X, in order
to_array_methods(X) ==
    IF issparse(X) THEN <<"toarray">>
    ELSE IF isSparseDataFrame(X) THEN <<"to_dense", "values">>
    ELSE IF isDataFrame(X) THEN <<"values">>
    ELSE <<>>

to_array_nodensify(X) ==
    IF issparse(X) THEN X
    ELSE IF isSparseDataFrame(X) THEN values(X)
    ELSE IF isDataFrame(X) THEN values(X)
    ELSE X

to_array(X) ==
    IF issparse(X) THEN toarray(X)
    ELSE IF isSparseDataFrame(X) THEN values(X)
    ELSE IF isDataFrame(X) THEN values(X)
    ELSE X

\* X.tocoo().nnz: the number of stored entries
nnz(X) == Cardinality(DOMAIN X.data)

\* X.density of a SparseDataFrame: stored (non-fill) points over all points
density(X) ==
    <<Cardinality({p \in Positions(X.shape) : X.data[p] # X.fill}),
      X.shape[1] * X.shape[2]>>

RatioEq(a, b) == a[1] * b[2] = b[1] * a[2]

\* ---------------------------------------------------------------- outcomes
NoExc == [type |-> "", msg |-> <<>>]

Returned(v) == [raised |-> FALSE, value |-> v, exc |-> NoExc]

Raised(type, msg) == [raised |-> TRUE, value |-> None, exc |-> [type |-> type, msg |-> msg]]

Parent(t) ==
    CASE t = "UnicodeError" -> "ValueError"
      [] t \in {"ValueError", "TypeError", "RuntimeError", "AssertionError",
                "AttributeError"} -> "Exception"
      [] OTHER -> "BaseException"

\* issubclass(t, c) over the built-in hierarchy
IsSubclass(t, c) ==
    \/ t = c
    \/ Parent(t) = c
    \/ Parent(Parent(t)) = c
    \/ c = "BaseException"

\* ------------------------------------------------------- equality predicates
array_equal_naive(A, B) ==
    /\ A.shape = B.shape
    /\ \A p \in Positions(A.shape) :
          A.data[p] # "nan" /\ B.data[p] # "nan" /\ A.data[p] = B.data[p]

\* np.testing.assert_array_equal on two dense arrays: the shapes must agree,
\* NaNs must sit at the same positions, every other cell must compare equal
array_equal(A, B) ==
    /\ A.shape = B.shape
    /\ \A p \in Positions(A.shape) :
          IF A.data[p] = "nan" \/ B.data[p] = "nan"
          THEN A.data[p] = "nan" /\ B.data[p] = "nan"
          ELSE A.data[p] = B.data[p]

assert_array_equal(A, B) ==
    IF array_equal(A, B)
    THEN Returned(None)
    ELSE Raised("AssertionError", <<"Arrays are not equal">>)

assert_all_equal(X, Y) == assert_array_equal(to_array(X), to_array(Y))

\* ------------------------------------------------- structural equivalence
\* np.all(a == b) on two label indexes of equal length
labels_equal(a, b) == \A i \in 1..Len(a) : a[i] = b[i]

AssertFailed == Raised("AssertionError", <<>>)

NoAttribute == Raised("AttributeError", <<"no such attribute">>)

class_equivalent_nonnz(X, Y) ==
    IF X.shape # Y.shape THEN AssertFailed
    ELSE IF issparse(X) /\ ~issparse(Y) THEN AssertFailed
    ELSE IF ~issparse(X) /\ TypeName(X) # TypeName(Y) THEN AssertFailed
    ELSE IF isDataFrame(X) /\ ~isDataFrame(Y) THEN NoAttribute
    ELSE IF isDataFrame(X) /\ ~labels_equal(X.columns, Y.columns) THEN AssertFailed
    ELSE IF isDataFrame(X) /\ ~labels_equal(X.index, Y.index) THEN AssertFailed
    ELSE IF (isSparseDataFrame(X) \/ isSparseDataFrame(Y))
            /\ ~(isSparseDataFrame(X) /\ isSparseDataFrame(Y)) THEN NoAttribute
    ELSE IF (isSparseDataFrame(X) \/ isSparseDataFrame(Y))
            /\ ~RatioEq(density(X), density(Y)) THEN AssertFailed
    ELSE Returned(TRUE)

assert_matrix_class_equivalent(X, Y) ==
    IF X.shape # Y.shape THEN AssertFailed
    ELSE IF issparse(X) /\ ~issparse(Y) THEN AssertFailed
    ELSE IF issparse(X) /\ nnz(X) # nnz(Y) THEN AssertFailed
    ELSE IF ~issparse(X) /\ TypeName(X) # TypeName(Y) THEN AssertFailed
    ELSE IF isDataFrame(X) /\ ~isDataFrame(Y) THEN NoAttribute
    ELSE IF isDataFrame(X) /\ ~labels_equal(X.columns, Y.columns) THEN AssertFailed
    ELSE IF isDataFrame(X) /\ ~labels_equal(X.index, Y.index) THEN AssertFailed
    ELSE IF (isSparseDataFrame(X) \/ isSparseDataFrame(Y))
            /\ ~(isSparseDataFrame(X) /\ isSparseDataFrame(Y)) THEN NoAttribute
    ELSE IF (isSparseDataFrame(X) \/ isSparseDataFrame(Y))
            /\ ~RatioEq(density(X), density(Y)) THEN AssertFailed
    ELSE Returned(TRUE)

\* ------------------------------------------- transforms and checks under test
\* keyword arguments are sets of <<name, value>> pairs
NoKwargs == {}

Kwargs == {NoKwargs, {<<"value", "1">>}}

KwGet(kw, name, default) ==
    IF \E p \in kw : p[1] = name
    THEN (CHOOSE p \in kw : p[1] = name)[2]
    ELSE default

transpose(X) ==
    [X EXCEPT !.shape = <<X.shape[2], X.shape[1]>>,
              !.data = [p \in {<<q[2], q[1]>> : q \in DOMAIN X.data} |-> X.data[<<p[2], p[1]>>]],
              !.columns = X.index,
              !.index = X.columns]

\* writes v into the first cell; a scipy sparse matrix drops a zero
set_first(X, v) ==
    IF issparse(X)
    THEN [X EXCEPT !.data =
            [p \in (IF v = "0" THEN DOMAIN X.data \ {<<1, 1>>}
                               ELSE DOMAIN X.data \cup {<<1, 1>>}) |->
                IF p = <<1, 1>> THEN v ELSE X.data[p]]]
    ELSE [X EXCEPT !.data[<<1, 1>>] = v]

relabel(X) ==
    IF isDataFrame(X)
    THEN [X EXCEPT !.columns = OtherLabels(Len(X.columns))]
    ELSE X

tocsc(X) == IF issparse(X) THEN [X EXCEPT !.kind = "csc_matrix"] ELSE X

RaisedTypes == {"ValueError", "UnicodeError", "TypeError", "KeyboardInterrupt"}

ReturningTransforms ==
    {[name |-> n, raises |-> ""] :
        n \in {"identity", "to_array", "transpose", "tocsc", "set_first", "relabel"}}

RaisingTransforms == {[name |-> "raiser", raises |-> t] : t \in RaisedTypes}

Transforms == ReturningTransforms \cup RaisingTransforms

\* transform(X, **kwargs)
ApplyTransform(t, X, kw) ==
    CASE t.raises # ""          -> Raised(t.raises, <<"bad input">>)
      [] t.name = "identity"    -> Returned(X)
      [] t.name = "to_array"    -> Returned(to_array(X))
      [] t.name = "transpose"   -> Returned(transpose(X))
      [] t.name = "tocsc"       -> Returned(tocsc(X))
      [] t.name = "set_first"   -> Returned(set_first(X, KwGet(kw, "value", "0")))
      [] OTHER                  -> Returned(relabel(X))

Checks == {"assert_all_equal", "check_raises", "check_false"}

\* an argument the caller left out
Omitted == ""

\* check=assert_all_equal
DefaultCheck(c) == IF c = Omitted THEN "assert_all_equal" ELSE c

\* exception=ValueError
DefaultException(e) == IF e = Omitted THEN "ValueError" ELSE e

\* check(Y, Y2)
CallCheck(c, Y, Y2) ==
    CASE c = "assert_all_equal" -> assert_all_equal(Y, Y2)
      [] c = "check_raises"     -> Raised("RuntimeError", <<"check failed">>)
      [] OTHER                  -> Returned(FALSE)

\* ------------------------------------------------------------------- state
VARIABLES
    op,        \* the helper being called
    args,      \* its arguments
    pc,        \* position inside the helper
    frame,     \* arguments of the inner assert_transform_equals call
    Y2,        \* value returned by transform(X, **kwargs)
    outcome,   \* what the helper returned or raised
    calls,     \* calls made to transform, check and the structural predicate
    version_info,  \* sys.version_info[:2] of the interpreter running setup.py
    files,         \* what version.py and README.rst hold, <<>> when missing
    spc,           \* position inside setup.py
    serror,        \* exception that aborted setup.py, "" when none
    version        \* version string parsed from version.py

vars == <<op, args, pc, frame, Y2, outcome, calls,
          version_info, files, spc, serror, version>>

helperVars == <<op, args, pc, frame, Y2, outcome, calls>>

setupVars == <<version_info, files, spc, serror, version>>

TransformOps ==
    {"assert_transform_equals", "assert_transform_unchanged",
     "assert_transform_equivalent"}

ExceptionClasses == {"ValueError", "TypeError", "Exception"}

NoFrame ==
    [X |-> None, Y |-> None, transform |-> [name |-> "", raises |-> ""],
     check |-> "", kwargs |-> NoKwargs]

NoOutcome == Returned(None)

\* expected values handed to the helpers: the input itself or an edited copy
ExpectedFor(X) == {X, set_first(X, "0"), set_first(X, "1")}

Args(o, X, Y, t, c, kw, e) ==
    [X |-> X, Y |-> Y, transform |-> t, check |-> c, kwargs |-> kw, exception |-> e]

NoTransform == [name |-> "", raises |-> ""]

Ops ==
    TransformOps \cup
    {"assert_transform_raises", "to_array", "assert_all_equal",
     "assert_matrix_class_equivalent"}

HelperInit ==
    /\ \E X \in Matrices :
          \/ \E Y \in ExpectedFor(X), t \in Transforms,
                c \in Checks \cup {Omitted}, kw \in Kwargs :
                /\ op \in {"assert_transform_equals", "assert_transform_equivalent"}
                /\ args = Args(op, X, Y, t, c, kw, "")
          \/ \E t \in Transforms, c \in Checks \cup {Omitted}, kw \in Kwargs :
                /\ op = "assert_transform_unchanged"
                /\ args = Args(op, X, None, t, c, kw, "")
          \/ \E t \in Transforms, e \in ExceptionClasses \cup {Omitted} :
                /\ op = "assert_transform_raises"
                /\ args = Args(op, X, None, t, "", NoKwargs, e)
          \/ /\ op = "to_array"
             /\ args = Args(op, X, None, NoTransform, "", NoKwargs, "")
          \/ \E t \in ReturningTransforms, kw \in Kwargs, swap \in BOOLEAN :
                /\ op \in {"assert_all_equal", "assert_matrix_class_equivalent"}
                /\ LET Z == ApplyTransform(t, X, kw).value
                   IN args = Args(op, IF swap THEN Z ELSE X, IF swap THEN X ELSE Z,
                                  NoTransform, "", NoKwargs, "")
    /\ pc = "start"
    /\ frame = NoFrame
    /\ Y2 = None
    /\ outcome = NoOutcome
    /\ calls = <<>>

Call(fn, a, kw) == [fn |-> fn, args |-> a, kwargs |-> kw]

WrapMessage_notype(e, X, t) == <<e.type, " input to ", t.name, "\n">> \o e.msg

\* "{} with {} input to {}\n{}".format(type(e).__name__, type(X).__name__, transform, str(e))
WrapMessage(e, X, t) ==
    <<e.type, " with ", TypeName(X), " input to ", t.name, "\n">> \o e.msg

\* "{} produced inconsistent matrix output".format(type(X).__name__)
InconsistentMessage(X) == <<TypeName(X), " produced inconsistent matrix output">>

\* "{} failed on {}".format(transform, type(X).__name__)
FailedOnMessage(t, X) == <<t.name, " failed on ", TypeName(X)>>

\* the arguments each wrapper hands to assert_transform_equals
FrameOf(o, a) ==
    [X |-> a.X,
     Y |-> IF o = "assert_transform_unchanged" THEN a.X ELSE a.Y,
     transform |-> a.transform, check |-> DefaultCheck(a.check), kwargs |-> a.kwargs]

\* what `except Exception` catches
Caught(e) == IsSubclass(e.type, "Exception")

\* try: Y2 = transform(X, **kwargs) / except Exception as e: raise RuntimeError(...)
TransformCall ==
    /\ pc = "start"
    /\ op \in TransformOps
    /\ LET f == FrameOf(op, args)
           r == ApplyTransform(f.transform, f.X, f.kwargs)
       IN /\ frame' = f
          /\ calls' = Append(calls, Call("transform", <<f.X>>, f.kwargs))
          /\ IF r.raised
             THEN /\ outcome' = IF Caught(r.exc)
                                THEN Raised("RuntimeError", WrapMessage(r.exc, f.X, f.transform))
                                ELSE r
                  /\ pc' = "done"
                  /\ Y2' = Y2
             ELSE /\ Y2' = r.value
                  /\ pc' = "check"
                  /\ outcome' = outcome
    /\ UNCHANGED <<op, args>>
    /\ UNCHANGED setupVars

ReturnValue_none(o, y2) == None

\* value the helper hands back once check has passed
ReturnValue(o, y2) == IF o = "assert_transform_equals" THEN y2 ELSE None

\* check(Y, Y2), "..." : a tuple expression, its value is dropped; return Y2
CheckCall ==
    /\ pc = "check"
    /\ LET r == CallCheck(frame.check, frame.Y, Y2)
       IN /\ calls' = Append(calls, Call("check", <<frame.Y, Y2>>, NoKwargs))
          /\ IF r.raised
             THEN /\ outcome' = r
                  /\ pc' = "done"
             ELSE IF op = "assert_transform_equivalent"
             THEN /\ outcome' = outcome
                  /\ pc' = "class_equiv"
             ELSE /\ outcome' = Returned(ReturnValue(op, Y2))
                  /\ pc' = "done"
    /\ UNCHANGED <<op, args, frame, Y2>>
    /\ UNCHANGED setupVars

ClassEquivalentCall_expected ==
    /\ pc = "class_equiv"
    /\ LET r == assert_matrix_class_equivalent(frame.Y, Y2)
       IN /\ calls' = Append(calls, Call("assert_matrix_class_equivalent", <<frame.Y, Y2>>, NoKwargs))
          /\ outcome' = IF r.raised THEN r
                        ELSE IF r.value = FALSE
                        THEN Raised("AssertionError", InconsistentMessage(args.X))
                        ELSE Returned(None)
          /\ pc' = "done"
    /\ UNCHANGED <<op, args, frame, Y2>>
    /\ UNCHANGED setupVars

\* assert assert_matrix_class_equivalent(X, Y2), "{} produced inconsistent ..."
ClassEquivalentCall ==
    /\ pc = "class_equiv"
    /\ LET r == assert_matrix_class_equivalent(args.X, Y2)
       IN /\ calls' = Append(calls, Call("assert_matrix_class_equivalent", <<args.X, Y2>>, NoKwargs))
          /\ outcome' = IF r.raised THEN r
                        ELSE IF r.value = FALSE
                        THEN Raised("AssertionError", InconsistentMessage(args.X))
                        ELSE Returned(None)
          /\ pc' = "done"
    /\ UNCHANGED <<op, args, frame, Y2>>
    /\ UNCHANGED setupVars

assert_raises_any(exception, r) ==
    IF r.raised
    THEN Returned(None)
    ELSE Raised("AssertionError", <<exception, " not raised">>)

\* nose.tools.assert_raises(exception, transform, X)
assert_raises(exception, r) ==
    IF r.raised
    THEN IF IsSubclass(r.exc.type, exception) THEN Returned(None) ELSE r
    ELSE Raised("AssertionError", <<exception, " not raised">>)

RaisesCall ==
    /\ pc = "start"
    /\ op = "assert_transform_raises"
    /\ calls' = Append(calls, Call("transform", <<args.X>>, NoKwargs))
    /\ outcome' = assert_raises(DefaultException(args.exception),
                                ApplyTransform(args.transform, args.X, NoKwargs))
    /\ pc' = "done"
    /\ UNCHANGED <<op, args, frame, Y2>>
    /\ UNCHANGED setupVars

ToArrayCall ==
    /\ pc = "start"
    /\ op = "to_array"
    /\ outcome' = Returned(to_array(args.X))
    /\ calls' = [i \in 1..Len(to_array_methods(args.X)) |->
                    Call(to_array_methods(args.X)[i], <<args.X>>, NoKwargs)]
    /\ pc' = "done"
    /\ UNCHANGED <<op, args, frame, Y2>>
    /\ UNCHANGED setupVars

AllEqualCall ==
    /\ pc = "start"
    /\ op = "assert_all_equal"
    /\ outcome' = assert_all_equal(args.X, args.Y)
    /\ pc' = "done"
    /\ UNCHANGED <<op, args, frame, Y2, calls>>
    /\ UNCHANGED setupVars

ClassEquivalentDirect ==
    /\ pc = "start"
    /\ op = "assert_matrix_class_equivalent"
    /\ outcome' = assert_matrix_class_equivalent(args.X, args.Y)
    /\ pc' = "done"
    /\ UNCHANGED <<op, args, frame, Y2, calls>>
    /\ UNCHANGED setupVars

\* ---------------------------------------------------------------- setup.py
\* file text is a sequence of characters; "dq" is the double quote, "nl" a newline
Whitespace == {" ", "nl"}

RECURSIVE lstrip(_)
lstrip(s) == IF s # <<>> /\ Head(s) \in Whitespace THEN lstrip(Tail(s)) ELSE s

RECURSIVE rstrip(_)
rstrip(s) ==
    IF s # <<>> /\ s[Len(s)] \in Whitespace THEN rstrip(SubSeq(s, 1, Len(s) - 1)) ELSE s

\* str.strip()
strip(s) == rstrip(lstrip(s))

\* s.split('=')[-1]: what follows the last '='
split_last(s) ==
    LET eqs == {i \in 1..Len(s) : s[i] = "="}
    IN IF eqs = {} THEN s
       ELSE SubSeq(s, (CHOOSE i \in eqs : \A j \in eqs : j <= i) + 1, Len(s))

IsNotQuote(c) == c # "dq"

\* s.replace('"', '')
remove_quotes(s) == SelectSeq(s, IsNotQuote)

\* open(version_py).read().strip().split('=')[-1].replace('"', '').strip()
parse_version(text) == strip(remove_quotes(split_last(strip(text))))

Missing == [exists |-> FALSE, text |-> <<>>]

File(text) == [exists |-> TRUE, text |-> text]

VersionFiles ==
    {Missing,
     File(<<"v", " ", "=", " ", "dq", "1", ".", "0", "dq", "nl">>),
     File(<<"dq", "1", ".", "0", "dq">>),
     File(<<"a", "=", "b", "=", "dq", " ", "2", "dq", " ">>)}

ReadmeFiles == {Missing, File(<<"s", "c", "p", "r", "e", "p">>)}

Majors == {2, 3}

VersionInfos == Majors \X (0..MaxMinor)

\* tuple comparison, as Python orders tuples
TupleLess(a, b) == a[1] < b[1] \/ (a[1] = b[1] /\ a[2] < b[2])

TupleLeq(a, b) == a = b \/ TupleLess(a, b)

unsupported_lax(v) == TupleLess(v, <<2, 7>>) \/ (TupleLess(<<3, 0>>, v) /\ TupleLess(v, <<3, 5>>))

\* sys.version_info[:2] < (2, 7) or (3, 0) <= sys.version_info[:2] < (3, 5)
unsupported(v) == TupleLess(v, <<2, 7>>) \/ (TupleLeq(<<3, 0>>, v) /\ TupleLess(v, <<3, 5>>))

\* open() of a missing file: IOError on Python 2, FileNotFoundError on Python 3
OpenError(v) == IF v[1] = 2 THEN "IOError" ELSE "FileNotFoundError"

SetupInit ==
    /\ version_info \in VersionInfos
    /\ files \in [version_py : VersionFiles, readme : ReadmeFiles]
    /\ spc = "start"
    /\ serror = ""
    /\ version = <<>>

\* if sys.version_info[:2] < (2, 7) or ...: raise RuntimeError(...)
VersionCheck ==
    /\ spc = "start"
    /\ IF unsupported(version_info)
       THEN spc' = "aborted" /\ serror' = "RuntimeError"
       ELSE spc' = "checked" /\ serror' = serror
    /\ UNCHANGED <<version_info, files, version>>
    /\ UNCHANGED helperVars

\* version = open(version_py).read()...
ReadVersion ==
    /\ spc = "checked"
    /\ IF files.version_py.exists
       THEN /\ version' = parse_version(files.version_py.text)
            /\ spc' = "version_read"
            /\ serror' = serror
       ELSE /\ version' = version
            /\ spc' = "aborted"
            /\ serror' = OpenError(version_info)
    /\ UNCHANGED <<version_info, files>>
    /\ UNCHANGED helperVars

\* readme = open('README.rst').read()
ReadReadme ==
    /\ spc = "version_read"
    /\ IF files.readme.exists
       THEN spc' = "readme_read" /\ serror' = serror
       ELSE spc' = "aborted" /\ serror' = OpenError(version_info)
    /\ UNCHANGED <<version_info, files, version>>
    /\ UNCHANGED helperVars

\* setup(name='scprep', version=version, ...)
SetupCall ==
    /\ spc = "readme_read"
    /\ spc' = "setup_called"
    /\ UNCHANGED <<version_info, files, version, serror>>
    /\ UNCHANGED helperVars

\* ----------------------------------------------------------- specifications
HelperIdle ==
    /\ op = "to_array"
    /\ args = Args("to_array", None, None, NoTransform, "", NoKwargs, "")
    /\ pc = "idle"
    /\ frame = NoFrame
    /\ Y2 = None
    /\ outcome = NoOutcome
    /\ calls = <<>>

SetupIdle ==
    /\ version_info = <<3, 5>>
    /\ files = [version_py |-> Missing, readme |-> Missing]
    /\ spc = "idle"
    /\ serror = ""
    /\ version = <<>>

Init == HelperInit /\ SetupIdle

Next ==
    \/ TransformCall
    \/ CheckCall
    \/ ClassEquivalentCall
    \/ RaisesCall
    \/ ToArrayCall
    \/ AllEqualCall
    \/ ClassEquivalentDirect

Spec == Init /\ [][Next]_vars

InstallInit == SetupInit /\ HelperIdle

InstallNext ==
    \/ VersionCheck
    \/ ReadVersion
    \/ ReadReadme
    \/ SetupCall

InstallSpec == InstallInit /\ [][InstallNext]_vars

\* ------------------------------------------------------------------ claims
Done == pc = "done"

Passed == pc = "done" /\ ~outcome.raised

\* number of cells of a dense array whose value is not zero
count_nonzero(A) == Cardinality({p \in Positions(A.shape) : A.data[p] # "0"})

CheckCalled == \E i \in DOMAIN calls : calls[i].fn = "check"

\* exception types raised by the transforms under test that derive from Exception
ExceptionDerived == {"ValueError", "UnicodeError", "TypeError"}

\* C1 as stated: whenever transform(X, **kwargs) raises ANY exception,
\* assert_transform_equals raises a RuntimeError carrying the exception's type
\* name, the input's type name, the transform and the message, and check is
\* never called.
C1_AnyExceptionWrapped ==
    (op = "assert_transform_equals" /\ Done /\ args.transform.raises # "") =>
        /\ outcome.raised
        /\ outcome.exc.type = "RuntimeError"
        /\ ~CheckCalled

\* C1 amended: an exception derived from Exception raised by the transform is
\* re-raised as a RuntimeError whose message carries type(e).__name__,
\* type(X).__name__, the transform and str(e), check is not called; an
\* exception that derives from BaseException only (KeyboardInterrupt)
\* propagates as it is, check still not called; an exception raised by check
\* propagates unwrapped, and the wrapping message appears only when the
\* transform raised.
C1_ExceptionWrapped ==
    (op \in TransformOps /\ Done) =>
        LET t == args.transform IN
        /\ t.raises \in ExceptionDerived =>
              /\ outcome.raised
              /\ outcome.exc.type = "RuntimeError"
              /\ outcome.exc.msg =
                    <<t.raises, " with ", args.X.kind, " input to ", t.name, "\n", "bad input">>
              /\ ~CheckCalled
        /\ (t.raises # "" /\ t.raises \notin ExceptionDerived) =>
              /\ outcome.raised
              /\ outcome.exc = [type |-> t.raises, msg |-> <<"bad input">>]
              /\ ~CheckCalled
        /\ (t.raises = "" /\ args.check = "check_raises") =>
              /\ outcome.raised
              /\ outcome.exc = [type |-> "RuntimeError", msg |-> <<"check failed">>]
        /\ (outcome.raised /\ t.raises = "") =>
              (outcome.exc.type = "RuntimeError" => outcome.exc.msg = <<"check failed">>)

C1_Witness ==
    /\ op = "assert_transform_equals"
    /\ Done
    /\ args.transform.raises = "ValueError"
    /\ args.X.kind = "csr_matrix"
    /\ outcome.raised
    /\ outcome.exc.type = "RuntimeError"
    /\ calls = <<Call("transform", <<args.X>>, args.kwargs)>>

\* C2: when the transform returns Y2, assert_transform_equals has called the
\* transform exactly once with X and the keyword arguments, then check
\* (assert_all_equal when omitted) exactly once with (Y, Y2); it returns Y2
\* exactly when check did not raise, and otherwise fails returning nothing.
C2_TransformThenCheck ==
    (op = "assert_transform_equals" /\ Done /\ args.transform.raises = "") =>
        LET c == IF args.check = Omitted THEN "assert_all_equal" ELSE args.check
            checkRaises ==
                \/ c = "check_raises"
                \/ c = "assert_all_equal" /\ ~array_equal(to_array(args.Y), to_array(Y2))
        IN /\ calls = <<Call("transform", <<args.X>>, args.kwargs),
                        Call("check", <<args.Y, Y2>>, NoKwargs)>>
           /\ Returned(Y2) = ApplyTransform(args.transform, args.X, args.kwargs)
           /\ (~outcome.raised /\ outcome.value = Y2) <=> ~checkRaises
           /\ checkRaises => (outcome.raised /\ outcome.value = None)

C2_Witness ==
    /\ op = "assert_transform_equals"
    /\ Done
    /\ args.transform.name = "set_first"
    /\ args.kwargs = {<<"value", "1">>}
    /\ args.check = Omitted
    /\ args.X # Y2
    /\ outcome = Returned(Y2)

\* C3: assert_transform_equivalent passes exactly when the transform does not
\* raise, check(Y, Y2) passes and assert_matrix_class_equivalent(X, Y2) holds;
\* the structural comparison is between the input X and the output Y2 and is
\* made only after check has passed.
C3_EquivalentPasses ==
    op = "assert_transform_equivalent" =>
        /\ Done =>
              (~outcome.raised <=>
                  /\ args.transform.raises = ""
                  /\ ~CallCheck(DefaultCheck(args.check), args.Y, Y2).raised
                  /\ ~assert_matrix_class_equivalent(args.X, Y2).raised)
        /\ \A i \in DOMAIN calls :
              calls[i].fn = "assert_matrix_class_equivalent" =>
                  /\ i = 3
                  /\ calls[i].args = <<args.X, Y2>>
                  /\ calls[2] = Call("check", <<args.Y, Y2>>, NoKwargs)
                  /\ ~CallCheck(DefaultCheck(args.check), args.Y, Y2).raised
        /\ (Done /\ ~outcome.raised) => Len(calls) = 3

C3_Witness ==
    /\ op = "assert_transform_equivalent"
    /\ Passed
    /\ args.X.kind = "csr_matrix"
    /\ Y2.kind = "csc_matrix"
    /\ args.Y # args.X
    /\ calls[3].fn = "assert_matrix_class_equivalent"

\* C4: a structural mismatch found by assert_transform_equivalent is reported as
\* an assertion failure with the '<type> produced inconsistent matrix output'
\* message, and a value mismatch found by assert_transform_equals with the
\* '<transform> failed on <type>' message.
C4_DescriptiveFailure ==
    /\ (op = "assert_transform_equivalent" /\ Done /\ Len(calls) = 3 /\ outcome.raised) =>
          outcome.exc = [type |-> "AssertionError", msg |-> InconsistentMessage(args.X)]
    /\ (op = "assert_transform_equals" /\ Done /\ Len(calls) = 2 /\ outcome.raised
        /\ DefaultCheck(args.check) = "assert_all_equal") =>
          outcome.exc = [type |-> "AssertionError",
                         msg |-> FailedOnMessage(args.transform, args.X)]

C6_TransformRaises ==
    (op = "assert_transform_raises" /\ Done) =>
        LET e == IF args.exception = Omitted THEN "ValueError" ELSE args.exception
            t == args.transform
            ofKind ==
                <<t.raises, e>> \in
                    {<<"ValueError", "ValueError">>, <<"UnicodeError", "ValueError">>,
                     <<"TypeError", "TypeError">>, <<"ValueError", "Exception">>,
                     <<"UnicodeError", "Exception">>, <<"TypeError", "Exception">>}
        IN /\ ~outcome.raised <=> ofKind
           /\ t.raises = "" => (outcome.raised /\ outcome.exc.type = "AssertionError")
           /\ calls = <<Call("transform", <<args.X>>, NoKwargs)>>

C6_Witness ==
    /\ op = "assert_transform_raises"
    /\ Passed
    /\ args.exception = Omitted
    /\ args.transform.raises = "UnicodeError"

\* C7: assert_transform_unchanged compares the transform's output with the
\* input itself: it passes exactly when the transform does not raise and
\* check(X, Y2) passes, and with the identity transform and the default check it
\* passes for every input.
C7_Unchanged ==
    (op = "assert_transform_unchanged" /\ Done) =>
        /\ ~outcome.raised <=>
              /\ args.transform.raises = ""
              /\ ~CallCheck(DefaultCheck(args.check), args.X,
                            ApplyTransform(args.transform, args.X, args.kwargs).value).raised
        /\ CheckCalled => calls[2].args = <<args.X, Y2>>
        /\ (args.transform.name = "identity" /\ args.check \in {Omitted, "assert_all_equal"})
              => ~outcome.raised

C7_Witness ==
    /\ op = "assert_transform_unchanged"
    /\ Passed
    /\ args.transform.name = "identity"
    /\ args.check = Omitted
    /\ args.X.kind = "SparseDataFrame"
    /\ \E p \in DOMAIN args.X.data : args.X.data[p] = "nan"

\* C8: assert_transform_unchanged and assert_transform_equivalent, when they
\* pass, return the value Y2 that transform(X, **kwargs) returned.
C8_WrappersReturnY2 ==
    (op \in {"assert_transform_unchanged", "assert_transform_equivalent"} /\ Passed) =>
        outcome.value = Y2

\* C9: setup.py aborts with a RuntimeError exactly when the interpreter's
\* (major, minor) is below 2.7 or at least 3.0 and below 3.5; the check comes
\* first, so an unsupported interpreter never reads version.py or README.rst
\* and never calls setup().
C9_VersionCheck ==
    LET major == version_info[1]
        minor == version_info[2]
        outside == major < 2 \/ (major = 2 /\ minor < 7) \/ (major = 3 /\ minor < 5)
    IN /\ spc # "start" => (serror = "RuntimeError" <=> outside)
       /\ spc = "start" => serror = ""
       /\ outside => (spc \in {"start", "aborted"} /\ version = <<>>)
       /\ (~outside /\ spc = "aborted") => serror \in {"IOError", "FileNotFoundError"}

C9_Witness ==
    /\ spc = "aborted"
    /\ serror = "RuntimeError"
    /\ version_info = <<3, 0>>
    /\ files.version_py.exists
    /\ files.readme.exists

\* C10: to_array takes exactly one branch, tested in the order sparse matrix,
\* labeled sparse table, labeled dense table, other: a sparse matrix becomes a
\* dense array of the same shape, values and number of non-zero values; a
\* labeled sparse table is densified and its values taken; a labeled dense
\* table has its values taken; anything else is returned unchanged; no input
\* raises.  The stored-entry count of a sparse matrix equals the dense non-zero
\* count whenever the matrix stores no explicit zero.
C10_ToArray ==
    (op = "to_array" /\ Done) =>
        LET X == args.X
            R == outcome.value
            methods == [i \in DOMAIN calls |-> calls[i].fn]
        IN /\ ~outcome.raised
           /\ X.kind \in {"csr_matrix", "csc_matrix"} =>
                 /\ methods = <<"toarray">>
                 /\ R.kind = "ndarray"
                 /\ R.shape = X.shape
                 /\ DOMAIN R.data = Positions(X.shape)
                 /\ \A p \in DOMAIN R.data :
                       R.data[p] = IF p \in DOMAIN X.data THEN X.data[p] ELSE "0"
                 /\ Cardinality({p \in DOMAIN R.data : R.data[p] # "0"})
                       = Cardinality({p \in DOMAIN X.data : X.data[p] # "0"})
                 /\ (\A p \in DOMAIN X.data : X.data[p] # "0") =>
                       Cardinality({p \in DOMAIN R.data : R.data[p] # "0"})
                           = Cardinality(DOMAIN X.data)
           /\ X.kind = "SparseDataFrame" =>
                 /\ methods = <<"to_dense", "values">>
                 /\ R = ndarray(X.shape, X.data)
           /\ X.kind = "DataFrame" =>
                 /\ methods = <<"values">>
                 /\ R = ndarray(X.shape, X.data)
           /\ X.kind \in {"ndarray", "matrix"} =>
                 /\ methods = <<>>
                 /\ R = X

C10_Witness ==
    /\ op = "to_array"
    /\ Done
    /\ args.X.kind = "csr_matrix"
    /\ nnz(args.X) = 1
    /\ args.X.shape = <<1, 2>>
    /\ outcome.value.kind = "ndarray"
    /\ count_nonzero(outcome.value) = 1

====
